---------------------------- MODULE Spec2Model ----------------------------
(***************************************************************************)
(* A model of maplink.go: the favicon scraping pipeline                    *)
(*   read URL list -> GET page -> regex scan -> resolve -> GET favicon     *)
(*   twice -> MD5/SHA256 -> INSERT OR IGNORE.                              *)
(*                                                                         *)
(* Go strings are modelled as sequences of one-character strings, so that  *)
(* prefix tests, indexing, concatenation and the regular expression are    *)
(* computed character by character.  MD5 and SHA256 are modelled as        *)
(* collision-free tagged values of the bytes they were fed.                *)
(***************************************************************************)
EXTENDS Naturals, Sequences, FiniteSets, TLC

VARIABLES
    pc,            \* position in main: start, readURLs, openDB, createTable, urls, links, done, panicked
    flagGiven,     \* whether -file was given (filename != "")
    lines,         \* the lines of the input file, as bufio.Scanner yields them
    urls,          \* main's urls: the result of readURLsFromFile
    idx,           \* number of iterations of the outer loop begun (baseURL == urls[idx])
    faviconLinks,  \* main's faviconLinks for the current page
    lidx,          \* number of iterations of the inner loop done for the current page
    db,            \* the rows of table favicons, in rowid order
    dbState,       \* unopened, open, closed
    processed,     \* the URLs of the "Processing URL" lines printed so far, in order
    stdout,        \* the lines the last step printed to standard output
    stderr,        \* the lines the last step printed to standard error
    resp,          \* the server's answer to the page GET of the current iteration
    fav1,          \* the server's answer to the first favicon GET of the last inner iteration
    fav2,          \* the server's answer to the second favicon GET (NoResp if not issued)
    fullURL,       \* main's fullURL in the last inner iteration
    hashes,        \* what calculateHashes returned in the last inner iteration
    dbFault,       \* whether the storage failed the INSERT of the last inner iteration
    saveErr,       \* what saveToDatabase returned in the last inner iteration: none, nil, error
    first,         \* history: for each link, the digests of the first insert that did not fail
    pin,           \* direct call of one function: its arguments
    pout           \* direct call of one function: its result

vars == <<pc, flagGiven, lines, urls, idx, faviconLinks, lidx, db, dbState, processed,
          stdout, stderr, resp, fav1, fav2, fullURL, hashes, dbFault, saveErr, first, pin, pout>>

-----------------------------------------------------------------------------
(* Bounds of the model *)

\* most lines in the input file
MaxLines == 2

\* most tokens concatenated into a page text or a favicon reference of a direct call
MaxTok == 3

-----------------------------------------------------------------------------
(* Strings *)

HTTP == <<"h","t","t","p",":","/","/">>

HTTPS == <<"h","t","t","p","s",":","/","/">>

SlashFavicon == <<"/","f","a","v","i","c","o","n",".","i","c","o">>

Favicon == <<"f","a","v","i","c","o","n",".","i","c","o">>

UPPER == <<"A","B","C","D","E","F","G","H","I","J","K","L","M",
           "N","O","P","Q","R","S","T","U","V","W","X","Y","Z">>

LOWER == <<"a","b","c","d","e","f","g","h","i","j","k","l","m",
           "n","o","p","q","r","s","t","u","v","w","x","y","z">>

\* the lower-case letter of each upper-case letter
FoldTable ==
    [c \in {UPPER[i] : i \in 1..Len(UPPER)} |->
        LOWER[CHOOSE i \in 1..Len(UPPER) : UPPER[i] = c]]

\* (?i): a letter of the pattern matches both of its cases
Fold(c) == IF c \in DOMAIN FoldTable THEN FoldTable[c] ELSE c

\* \s of the regular expression: [\t\n\f\r ]
ReSpace == {" ", "\t", "\n", "\f", "\r"}

\* unicode.IsSpace on the characters a TLA+ string can hold
IsSpace(c) == c \in {" ", "\t", "\n", "\f", "\r"}

\* strings.HasPrefix
HasPrefix(s, prefix) ==
    Len(s) >= Len(prefix) /\ SubSeq(s, 1, Len(prefix)) = prefix

RECURSIVE TrimLeft(_)
TrimLeft(s) ==
    IF s # <<>> /\ IsSpace(Head(s)) THEN TrimLeft(Tail(s)) ELSE s

RECURSIVE TrimRight(_)
TrimRight(s) ==
    IF s # <<>> /\ IsSpace(s[Len(s)]) THEN TrimRight(SubSeq(s, 1, Len(s) - 1)) ELSE s

\* strings.TrimSpace
TrimSpace(s) == TrimRight(TrimLeft(s))

SetMin(S) == CHOOSE m \in S : \A n \in S : m <= n

-----------------------------------------------------------------------------
(* HTTP responses: what http.Get returns *)

StatusOK == 200

NilErr == [kind |-> "nil", code |-> 0]

TransportErr == [kind |-> "transport", code |-> 0]

ReadErr == [kind |-> "read", code |-> 0]

StatusErr(code) == [kind |-> "status", code |-> code]

\* no request was made
NoResp == [made |-> FALSE, err |-> FALSE, status |-> 0, body |-> <<>>, readErr |-> FALSE]

\* http.Get returned an error (connection, DNS, TLS)
GetFailed == [made |-> TRUE, err |-> TRUE, status |-> 0, body |-> <<>>, readErr |-> FALSE]

\* http.Get returned a response whose body is read to its end
Answer(status, body) ==
    [made |-> TRUE, err |-> FALSE, status |-> status, body |-> body, readErr |-> FALSE]

\* http.Get returned a response, and reading its body fails
Broken(status, body) ==
    [made |-> TRUE, err |-> FALSE, status |-> status, body |-> body, readErr |-> TRUE]

-----------------------------------------------------------------------------
(* fetchHTML *)

fetchHTML_BodyWithStatusError(r) ==
    IF r.err THEN [body |-> <<>>, err |-> TransportErr]
    ELSE IF r.status # StatusOK THEN [body |-> r.body, err |-> StatusErr(r.status)]
    ELSE IF r.readErr THEN [body |-> <<>>, err |-> ReadErr]
    ELSE [body |-> r.body, err |-> NilErr]

fetchHTML_NoStatusCheck(r) ==
    IF r.err THEN [body |-> <<>>, err |-> TransportErr]
    ELSE IF r.readErr THEN [body |-> <<>>, err |-> ReadErr]
    ELSE [body |-> r.body, err |-> NilErr]

fetchHTML(r) ==
    IF r.err THEN [body |-> <<>>, err |-> TransportErr]
    ELSE IF r.status # StatusOK THEN [body |-> <<>>, err |-> StatusErr(r.status)]
    ELSE IF r.readErr THEN [body |-> <<>>, err |-> ReadErr]
    ELSE [body |-> r.body, err |-> NilErr]

-----------------------------------------------------------------------------
(* extractFaviconLinks *)

\* the literal lit (in lower case) matches s at position i, ignoring case
FoldAt(s, i, lit) ==
    /\ i + Len(lit) - 1 <= Len(s)
    /\ \A k \in 1..Len(lit) : Fold(s[i + k - 1]) = lit[k]

\* https?:// at position i: the position after it, or 0
SchemeEnd(s, i) ==
    IF FoldAt(s, i, HTTP) THEN i + Len(HTTP)
    ELSE IF FoldAt(s, i, HTTPS) THEN i + Len(HTTPS)
    ELSE 0

\* [^\"\s]*?/favicon\.ico from position p: where /favicon.ico may start
LazyStarts(s, p) ==
    {q \in p..Len(s) :
        /\ FoldAt(s, q, SlashFavicon)
        /\ \A j \in p..(q - 1) : s[j] \notin ({"\""} \cup ReSpace)}

\* The index of the last character of the match that starts at i, or 0 if the
\* pattern does not match there.  The alternatives are tried in order and the
\* lazy star takes the fewest characters.
MatchEnd(s, i) ==
    IF SchemeEnd(s, i) # 0 /\ LazyStarts(s, SchemeEnd(s, i)) # {}
    THEN SetMin(LazyStarts(s, SchemeEnd(s, i))) + Len(SlashFavicon) - 1
    ELSE IF FoldAt(s, i, SlashFavicon) THEN i + Len(SlashFavicon) - 1
    ELSE IF FoldAt(s, i, Favicon) THEN i + Len(Favicon) - 1
    ELSE 0

\* re.FindAllString(content, -1) from position i on: leftmost matches, not overlapping
RECURSIVE FindFrom(_, _)
FindFrom(s, i) ==
    LET starts == {j \in i..Len(s) : MatchEnd(s, j) # 0}
    IN  IF starts = {} THEN <<>>
        ELSE LET j == SetMin(starts)
             IN  <<SubSeq(s, j, MatchEnd(s, j))>> \o FindFrom(s, MatchEnd(s, j) + 1)

FindAllString(s) == FindFrom(s, 1)

RECURSIVE DedupNoSeen(_, _, _)
DedupNoSeen(matches, seen, links) ==
    IF matches = <<>> THEN links
    ELSE DedupNoSeen(Tail(matches), seen, Append(links, Head(matches)))

\* the loop over matches with the map seen
RECURSIVE Dedup(_, _, _)
Dedup(matches, seen, links) ==
    IF matches = <<>> THEN links
    ELSE IF Head(matches) \in seen
         THEN Dedup(Tail(matches), seen, links)
         ELSE Dedup(Tail(matches), seen \cup {Head(matches)}, Append(links, Head(matches)))

extractFaviconLinks(content) == Dedup(FindAllString(content), {}, <<>>)

-----------------------------------------------------------------------------
(* calculateHashes *)

MD5(bytes) == [alg |-> "md5", of |-> bytes]

SHA256(bytes) == [alg |-> "sha256", of |-> bytes]

NoDigest == [alg |-> "none", of |-> <<>>]

NoHashes == [md5 |-> NoDigest, sha256 |-> NoDigest, err |-> NilErr, gets |-> 0]

\* g1, g2: the server's answers to the first and to the second GET; gets: how
\* many GETs were issued.  No status is looked at.
calculateHashes(g1, g2) ==
    IF g1.err THEN [md5 |-> NoDigest, sha256 |-> NoDigest, err |-> TransportErr, gets |-> 1]
    ELSE IF g1.readErr THEN [md5 |-> NoDigest, sha256 |-> NoDigest, err |-> ReadErr, gets |-> 1]
    ELSE IF g2.err THEN [md5 |-> NoDigest, sha256 |-> NoDigest, err |-> TransportErr, gets |-> 2]
    ELSE IF g2.readErr THEN [md5 |-> NoDigest, sha256 |-> NoDigest, err |-> ReadErr, gets |-> 2]
    ELSE [md5 |-> MD5(g1.body), sha256 |-> SHA256(g2.body), err |-> NilErr, gets |-> 2]

-----------------------------------------------------------------------------
(* saveToDatabase *)

Links(rows) == {rows[i].link : i \in 1..Len(rows)}

Row(rows, link, md5Hash, sha256Hash) ==
    [id |-> Len(rows) + 1, link |-> link, md5 |-> md5Hash, sha256 |-> sha256Hash]

saveToDatabase_Replace(rows, link, md5Hash, sha256Hash, fault) ==
    IF fault THEN [db |-> rows, err |-> TRUE]
    ELSE IF link \in Links(rows)
    THEN [db |-> [i \in 1..Len(rows) |->
                    IF rows[i].link = link
                    THEN [rows[i] EXCEPT !.md5 = md5Hash, !.sha256 = sha256Hash]
                    ELSE rows[i]],
          err |-> FALSE]
    ELSE [db |-> Append(rows, Row(rows, link, md5Hash, sha256Hash)), err |-> FALSE]

\* INSERT OR IGNORE under UNIQUE(link); fault: the statement fails (disk, lock, corruption)
saveToDatabase(rows, link, md5Hash, sha256Hash, fault) ==
    IF fault THEN [db |-> rows, err |-> TRUE]
    ELSE IF link \in Links(rows) THEN [db |-> rows, err |-> FALSE]
    ELSE [db |-> Append(rows, Row(rows, link, md5Hash, sha256Hash)), err |-> FALSE]

-----------------------------------------------------------------------------
(* resolveLink *)

resolveLink_NoSlash(baseURL, link) ==
    IF HasPrefix(link, HTTP) \/ HasPrefix(link, HTTPS) THEN [panic |-> FALSE, url |-> link]
    ELSE IF Len(link) = 0 THEN [panic |-> TRUE, url |-> <<>>]
    ELSE [panic |-> FALSE, url |-> baseURL \o link]

\* link[0] of an empty string: panic, index out of range
resolveLink(baseURL, link) ==
    IF HasPrefix(link, HTTP) \/ HasPrefix(link, HTTPS) THEN [panic |-> FALSE, url |-> link]
    ELSE IF Len(link) = 0 THEN [panic |-> TRUE, url |-> <<>>]
    ELSE IF link[1] = "/" THEN [panic |-> FALSE, url |-> baseURL \o link]
    ELSE [panic |-> FALSE, url |-> baseURL \o <<"/">> \o link]

-----------------------------------------------------------------------------
(* readURLsFromFile *)

RECURSIVE ScanKeepBlank(_, _)
ScanKeepBlank(ls, acc) ==
    IF ls = <<>> THEN acc
    ELSE ScanKeepBlank(Tail(ls), Append(acc, TrimSpace(Head(ls))))

readURLsFromFile_KeepBlank(ls) == ScanKeepBlank(ls, <<>>)

\* the scanner loop
RECURSIVE Scan(_, _)
Scan(ls, acc) ==
    IF ls = <<>> THEN acc
    ELSE IF TrimSpace(Head(ls)) # <<>>
         THEN Scan(Tail(ls), Append(acc, TrimSpace(Head(ls))))
         ELSE Scan(Tail(ls), acc)

readURLsFromFile(ls) == Scan(ls, <<>>)

-----------------------------------------------------------------------------
(* The inputs of a run *)

U1 == HTTP \o <<"a">>

U2 == HTTP \o <<"b">>

\* a blank line, a line of white space, a URL with white space around it, a URL
LineSet == {<<>>, <<" ", "\t">>, <<" ">> \o U1 \o <<"\t">>, U2}

\* the input files: every sequence of at most MaxLines lines
Files == UNION {[1..n -> LineSet] : n \in 0..MaxLines}

\* a page without a favicon reference
PageNone == <<"<","p",">">>

\* a page with one root-relative reference, in quotes
PageRoot == <<"\"">> \o SlashFavicon \o <<"\"">>

\* a page with a bare reference, an absolute one, and the bare one again
PageTwo == Favicon \o <<" ">> \o U2 \o SlashFavicon \o <<" ">> \o Favicon

\* the answers to a page GET: no answer, the three pages, a page whose body cannot
\* be read, an empty 204, and a 404 whose error page names a favicon
PageResponses ==
    {GetFailed, Answer(StatusOK, PageNone), Answer(StatusOK, PageRoot),
     Answer(StatusOK, PageTwo), Broken(StatusOK, PageRoot), Answer(204, <<>>),
     Answer(404, PageRoot)}

ICO == <<"I","C","O">>

\* any other bytes: the icon after the server changed it, or an error page
Other == <<"N","F">>

\* the answers to a favicon GET: no answer, the icon, an icon whose body cannot
\* be read, other bytes, and a 404 with other bytes
FavResponses ==
    {GetFailed, Answer(StatusOK, ICO), Broken(StatusOK, ICO), Answer(StatusOK, Other),
     Answer(404, Other)}

\* the table as earlier runs left it: CREATE TABLE IF NOT EXISTS keeps its rows
OldIcon == <<"O","L","D">>

PriorDBs == {<<>>, <<Row(<<>>, U2 \o SlashFavicon, MD5(OldIcon), SHA256(OldIcon))>>}

Digests(rows) ==
    {[link |-> rows[i].link, md5 |-> rows[i].md5, sha256 |-> rows[i].sha256] :
        i \in 1..Len(rows)}

NoCall == [fn |-> "none"]

NoResult == [done |-> FALSE]

-----------------------------------------------------------------------------
(* main *)

Init ==
    /\ pc = "start"
    /\ flagGiven \in BOOLEAN
    /\ lines \in Files
    /\ urls = <<>>
    /\ idx = 0
    /\ faviconLinks = <<>>
    /\ lidx = 0
    /\ db \in PriorDBs
    /\ dbState = "unopened"
    /\ processed = <<>>
    /\ stdout = <<>>
    /\ stderr = <<>>
    /\ resp = NoResp
    /\ fav1 = NoResp
    /\ fav2 = NoResp
    /\ fullURL = <<>>
    /\ hashes = NoHashes
    /\ dbFault = FALSE
    /\ saveErr = "none"
    /\ first = Digests(db)
    /\ pin = NoCall
    /\ pout = NoResult

\* flag.Parse and the test of filename
ParseFlags ==
    /\ pc = "start"
    /\ IF flagGiven
       THEN pc' = "readURLs" /\ stdout' = <<>>
       ELSE pc' = "done" /\ stdout' = <<[kind |-> "usage"]>>
    /\ stderr' = <<>>
    /\ UNCHANGED <<flagGiven, lines, urls, idx, faviconLinks, lidx, db, dbState, processed,
                   resp, fav1, fav2, fullURL, hashes, dbFault, saveErr, first, pin, pout>>

\* urls, err := readURLsFromFile(filename); fails: os.Open or the scanner fails
ReadURLs ==
    /\ pc = "readURLs"
    /\ \E fails \in BOOLEAN :
         IF fails
         THEN /\ pc' = "done"
              /\ urls' = urls
              /\ stderr' = <<[kind |-> "read"]>>
         ELSE /\ pc' = "openDB"
              /\ urls' = readURLsFromFile(lines)
              /\ stderr' = <<>>
    /\ stdout' = <<>>
    /\ UNCHANGED <<flagGiven, lines, idx, faviconLinks, lidx, db, dbState, processed,
                   resp, fav1, fav2, fullURL, hashes, dbFault, saveErr, first, pin, pout>>

\* db, err := sql.Open(...); defer db.Close()
OpenDatabase ==
    /\ pc = "openDB"
    /\ \E fails \in BOOLEAN :
         IF fails
         THEN /\ pc' = "done"
              /\ dbState' = dbState
              /\ stderr' = <<[kind |-> "open"]>>
         ELSE /\ pc' = "createTable"
              /\ dbState' = "open"
              /\ stderr' = <<>>
    /\ stdout' = <<>>
    /\ UNCHANGED <<flagGiven, lines, urls, idx, faviconLinks, lidx, db, processed,
                   resp, fav1, fav2, fullURL, hashes, dbFault, saveErr, first, pin, pout>>

\* CREATE TABLE IF NOT EXISTS favicons; on failure main returns and the deferred Close runs
CreateTable ==
    /\ pc = "createTable"
    /\ \E fails \in BOOLEAN :
         IF fails
         THEN /\ pc' = "done"
              /\ dbState' = "closed"
              /\ stderr' = <<[kind |-> "create"]>>
         ELSE /\ pc' = "urls"
              /\ dbState' = dbState
              /\ stderr' = <<>>
    /\ stdout' = <<>>
    /\ UNCHANGED <<flagGiven, lines, urls, idx, faviconLinks, lidx, db, processed,
                   resp, fav1, fav2, fullURL, hashes, dbFault, saveErr, first, pin, pout>>

\* One iteration of the outer loop up to the inner loop: print, fetchHTML,
\* extractFaviconLinks.  r is the server's answer to the page GET.
ProcessURL ==
    /\ pc = "urls"
    /\ idx < Len(urls)
    /\ \E r \in PageResponses :
         LET baseURL == urls[idx + 1]
             page == fetchHTML(r)
             found == extractFaviconLinks(page.body)
             out == <<[kind |-> "processing", url |-> baseURL]>>
         IN  /\ resp' = r
             /\ idx' = idx + 1
             /\ processed' = Append(processed, baseURL)
             /\ lidx' = 0
             /\ IF page.err # NilErr
                THEN /\ stderr' = <<[kind |-> "fetch", err |-> page.err]>>
                     /\ stdout' = out
                     /\ faviconLinks' = <<>>
                     /\ pc' = "urls"
                ELSE IF Len(found) = 0
                THEN /\ stderr' = <<>>
                     /\ stdout' = Append(out, [kind |-> "nolinks"])
                     /\ faviconLinks' = found
                     /\ pc' = "urls"
                ELSE /\ stderr' = <<>>
                     /\ stdout' = out
                     /\ faviconLinks' = found
                     /\ pc' = "links"
    /\ fav1' = NoResp
    /\ fav2' = NoResp
    /\ fullURL' = <<>>
    /\ hashes' = NoHashes
    /\ dbFault' = FALSE
    /\ saveErr' = "none"
    /\ UNCHANGED <<flagGiven, lines, urls, db, dbState, first, pin, pout>>

LinkBreak(i, n) == "urls"

\* where main is after inner iteration i + 1 of n: continue, or the end of the range
LinkContinue(i, n) == IF i + 1 < n THEN "links" ELSE "urls"

\* One iteration of the inner loop: resolveLink, calculateHashes, print,
\* saveToDatabase.  g1 and g2 are the server's answers to the two favicon GETs
\* (the second GET is issued only when the first body was read to its end), and
\* fault says whether the INSERT statement fails (it runs only when both digests
\* were computed).
ProcessLink ==
    /\ pc = "links"
    /\ lidx < Len(faviconLinks)
    /\ \E g1 \in FavResponses :
       \E g2 \in (IF g1.err \/ g1.readErr THEN {NoResp} ELSE FavResponses) :
       \E fault \in (IF calculateHashes(g1, g2).err = NilErr THEN BOOLEAN ELSE {FALSE}) :
         LET baseURL == urls[idx]
             link == faviconLinks[lidx + 1]
             res == resolveLink(baseURL, link)
             h == calculateHashes(g1, g2)
             s == saveToDatabase(db, res.url, h.md5, h.sha256, fault)
         IN  IF res.panic
             THEN /\ pc' = "panicked"
                  /\ dbState' = "closed"
                  /\ stdout' = <<>>
                  /\ stderr' = <<[kind |-> "panic"]>>
                  /\ UNCHANGED <<lidx, db, fav1, fav2, fullURL, hashes, dbFault, saveErr, first>>
             ELSE /\ fullURL' = res.url
                  /\ fav1' = g1
                  /\ fav2' = g2
                  /\ hashes' = h
                  /\ dbFault' = fault
                  /\ lidx' = lidx + 1
                  /\ pc' = LinkContinue(lidx, Len(faviconLinks))
                  /\ dbState' = dbState
                  /\ IF h.err # NilErr
                     THEN /\ stderr' = <<[kind |-> "hash", url |-> res.url, err |-> h.err]>>
                          /\ stdout' = <<>>
                          /\ db' = db
                          /\ saveErr' = "none"
                          /\ first' = first
                     ELSE /\ stdout' = <<[kind |-> "favicon", url |-> res.url,
                                        md5 |-> h.md5, sha256 |-> h.sha256]>>
                          /\ db' = s.db
                          /\ saveErr' = IF s.err THEN "error" ELSE "nil"
                          /\ stderr' = IF s.err
                                       THEN <<[kind |-> "db", url |-> link]>>
                                       ELSE <<>>
                          /\ first' = IF fault \/ res.url \in {d.link : d \in first}
                                      THEN first
                                      ELSE first \cup {[link |-> res.url, md5 |-> h.md5,
                                                        sha256 |-> h.sha256]}
    /\ UNCHANGED <<flagGiven, lines, urls, idx, faviconLinks, processed, resp, pin, pout>>

\* the range over urls is exhausted: main returns and the deferred db.Close() runs
Finish ==
    /\ pc = "urls"
    /\ idx = Len(urls)
    /\ pc' = "done"
    /\ dbState' = "closed"
    /\ stdout' = <<>>
    /\ stderr' = <<>>
    /\ UNCHANGED <<flagGiven, lines, urls, idx, faviconLinks, lidx, db, processed,
                   resp, fav1, fav2, fullURL, hashes, dbFault, saveErr, first, pin, pout>>

Next ==
    \/ ParseFlags
    \/ ReadURLs
    \/ OpenDatabase
    \/ CreateTable
    \/ ProcessURL
    \/ ProcessLink
    \/ Finish

Spec == Init /\ [][Next]_vars

\* main runs to its end: every call returns, and the loops go on while they can
FairSpec == Init /\ [][Next]_vars /\ WF_vars(Next)

-----------------------------------------------------------------------------
(* Direct calls of resolveLink, extractFaviconLinks and fetchHTML *)

ACom == HTTP \o <<"a",".","c","o","m">>

\* the pieces the texts of a direct call are made of
Tokens ==
    {HTTP, <<"H","T","T","P","S",":","/","/">>, <<"a">>, SlashFavicon, Favicon,
     <<"F","A","V","I","C","O","N",".","I","C","O">>, <<" ">>, <<"\"">>}

RECURSIVE Concats(_)
Concats(n) ==
    IF n = 0 THEN {<<>>}
    ELSE Concats(n - 1) \cup {s \o t : s \in Concats(n - 1), t \in Tokens}

\* every text of at most MaxTok tokens, the empty text among them
Texts == Concats(MaxTok)

Bases == {ACom, U1 \o <<"/">>, <<>>}

AnyResponses ==
    {GetFailed} \cup
    {Answer(st, b) : st \in {StatusOK, 201, 203, 301, 404, 500}, b \in {<<>>, PageRoot}} \cup
    {Broken(st, b) : st \in {StatusOK, 201, 404}, b \in {PageRoot}}

Calls ==
    [fn : {"resolveLink"}, baseURL : Bases, link : Texts] \cup
    [fn : {"extractFaviconLinks"}, content : Texts] \cup
    [fn : {"fetchHTML"}, resp : AnyResponses]

DirectInit ==
    /\ pin \in Calls
    /\ pout = NoResult
    /\ pc = "direct"
    /\ flagGiven = FALSE
    /\ lines = <<>>
    /\ urls = <<>>
    /\ idx = 0
    /\ faviconLinks = <<>>
    /\ lidx = 0
    /\ db = <<>>
    /\ dbState = "unopened"
    /\ processed = <<>>
    /\ stdout = <<>>
    /\ stderr = <<>>
    /\ resp = NoResp
    /\ fav1 = NoResp
    /\ fav2 = NoResp
    /\ fullURL = <<>>
    /\ hashes = NoHashes
    /\ dbFault = FALSE
    /\ saveErr = "none"
    /\ first = {}

CallResolveLink ==
    /\ pin.fn = "resolveLink"
    /\ ~pout.done
    /\ pout' = [done |-> TRUE, res |-> resolveLink(pin.baseURL, pin.link)]
    /\ UNCHANGED <<pc, flagGiven, lines, urls, idx, faviconLinks, lidx, db, dbState,
                   processed, stdout, stderr, resp, fav1, fav2, fullURL, hashes, dbFault,
                   saveErr, first, pin>>

CallExtractFaviconLinks ==
    /\ pin.fn = "extractFaviconLinks"
    /\ ~pout.done
    /\ pout' = [done |-> TRUE, matches |-> FindAllString(pin.content),
                links |-> extractFaviconLinks(pin.content)]
    /\ UNCHANGED <<pc, flagGiven, lines, urls, idx, faviconLinks, lidx, db, dbState,
                   processed, stdout, stderr, resp, fav1, fav2, fullURL, hashes, dbFault,
                   saveErr, first, pin>>

CallFetchHTML ==
    /\ pin.fn = "fetchHTML"
    /\ ~pout.done
    /\ pout' = [done |-> TRUE, res |-> fetchHTML(pin.resp)]
    /\ UNCHANGED <<pc, flagGiven, lines, urls, idx, faviconLinks, lidx, db, dbState,
                   processed, stdout, stderr, resp, fav1, fav2, fullURL, hashes, dbFault,
                   saveErr, first, pin>>

DirectNext ==
    \/ CallResolveLink
    \/ CallExtractFaviconLinks
    \/ CallFetchHTML

DirectSpec == DirectInit /\ [][DirectNext]_vars

-----------------------------------------------------------------------------
(* Properties *)

Success(status) == status \in 200..299

\* an iteration of the outer loop, and one of the inner loop
URLStep == pc = "urls" /\ idx' = idx + 1

LinkStep == pc = "links" /\ lidx' = lidx + 1

Logged(stream, kind) == Len(stream) = 1 /\ stream[1].kind = kind

\* s starts with p
StartsWith(s, p) == Len(s) >= Len(p) /\ \A i \in 1..Len(p) : s[i] = p[i]

\* C1: the table holds exactly one row for each URL ever inserted, with the
\* digests of the first insert of that URL that the storage did not fail; an
\* insert the storage does not fail returns no error, also when the URL is
\* already there with other digests.
C1_OneRecordPerURL ==
    /\ \A i, j \in 1..Len(db) : db[i].link = db[j].link => i = j
    /\ Digests(db) = first
    /\ (saveErr # "none" /\ ~dbFault) => saveErr = "nil"
    /\ (saveErr = "nil") => fullURL \in Links(db)

\* C1's case: a URL that is in the table was inserted again with other digests
C1_Witness ==
    /\ saveErr = "nil"
    /\ \E i \in 1..Len(db) :
         /\ db[i].link = fullURL
         /\ db[i].md5 # hashes.md5
         /\ db[i].sha256 # hashes.sha256

\* the line has a character that is not white space
NonBlank(line) == \E i \in 1..Len(line) : ~IsSpace(line[i])

\* the line from its first to its last character that is not white space
Stripped(line) ==
    LET keep == {i \in 1..Len(line) : ~IsSpace(line[i])}
    IN  SubSeq(line, SetMin(keep), CHOOSE m \in keep : \A n \in keep : n <= m)

RECURSIVE TargetURLs(_)
TargetURLs(ls) ==
    IF ls = <<>> THEN <<>>
    ELSE IF NonBlank(Head(ls)) THEN <<Stripped(Head(ls))>> \o TargetURLs(Tail(ls))
    ELSE TargetURLs(Tail(ls))

Terminal ==
    /\ pc = "done"
    /\ dbState = "closed"
    /\ processed = TargetURLs(lines)
    /\ Len(processed) = Cardinality({i \in 1..Len(lines) : NonBlank(lines[i])})
    /\ \A i \in 1..Len(processed) : processed[i] # <<>>

\* C2: a run that is past startup (the file read, the store opened, the table
\* created) reaches the terminal state: main has returned, the store is closed,
\* and the URLs processed are the trimmed non-blank lines, each once, in order.
C2_RunCompletes == (pc = "urls") ~> Terminal

\* C2's case: a finished run over a blank line followed by a URL with white
\* space around it
C2_Witness ==
    /\ Terminal
    /\ Len(lines) = 2
    /\ ~NonBlank(lines[1])
    /\ Len(processed) = 1
    /\ processed[1] # lines[2]

PageFetchFailed(r) == r.made /\ (r.err \/ ~Success(r.status))

C3_Inv == pc = "links" => ~PageFetchFailed(resp)

C3_Act ==
    /\ (URLStep /\ PageFetchFailed(resp')) =>
          /\ Logged(stderr', "fetch")
          /\ db' = db
          /\ faviconLinks' = <<>>
          /\ pc' = "urls"
          /\ processed' = Append(processed, urls[idx'])
    /\ \/ db' # db
       \/ fullURL' # fullURL /\ fullURL' # <<>>
       \/ hashes' # hashes /\ hashes' # NoHashes
       => pc = "links"

\* C3: when the page fetch fails (no answer, or a status that is not a success)
\* one error line goes to standard error, the table is left as it was, no link
\* of the page is resolved, hashed or stored, and main is back at the head of the
\* outer loop with the next URL.
C3_FetchFailureSkipsPage == []C3_Inv /\ [][C3_Act]_vars

\* C3's case: the page fetch of the first URL got a 404 and another URL follows
C3_Witness ==
    /\ pc = "urls"
    /\ idx = 1
    /\ Len(urls) = 2
    /\ ~resp.err /\ resp.status = 404
    /\ Logged(stderr, "fetch")

C4_Inv ==
    /\ pc = "links" => lidx < Len(faviconLinks)
    /\ (pc \in {"urls", "done"} /\ idx > 0) => lidx = Len(faviconLinks)

C4_Act ==
    LinkStep =>
        /\ idx' = idx /\ faviconLinks' = faviconLinks
        /\ fav1'.made
        /\ fullURL' \in {faviconLinks[lidx'], urls[idx] \o faviconLinks[lidx'],
                         urls[idx] \o <<"/">> \o faviconLinks[lidx']}
        /\ (fav1'.err \/ fav2'.err) =>
              /\ hashes'.md5 = NoDigest /\ hashes'.sha256 = NoDigest
              /\ Logged(stderr', "hash") /\ stderr'[1].url = fullURL'
              /\ db' = db /\ saveErr' = "none"
        /\ hashes'.err = NilErr => saveErr' # "none"
        /\ dbFault' => Logged(stderr', "db") /\ stderr'[1].url = faviconLinks[lidx']
        /\ lidx' < Len(faviconLinks) => pc' = "links"

\* C4: a transport error on either favicon GET gives up the digest pair, logs
\* an error for the link and inserts nothing; a failed insert is logged; either
\* way the inner loop goes on, and every link of the page is resolved, hashed
\* and, when hashed, offered to the store.
C4_LinkFailureKeepsPage == []C4_Inv /\ [][C4_Act]_vars

\* C4's case: the first of two links failed in the second GET, the second link is next
C4_Witness ==
    /\ pc = "links"
    /\ lidx = 1
    /\ Len(faviconLinks) = 2
    /\ fav2.err
    /\ Logged(stderr, "hash")

\* C5: a favicon GET answered with a status that is not a success makes
\* calculateHashes fail, and the error is reported with the URL.
C5_StatusErrorReported ==
    \A g \in {fav1, fav2} :
        (g.made /\ ~g.err /\ ~Success(g.status)) =>
            /\ hashes.err # NilErr
            /\ (pc # "done" => Logged(stderr, "hash") /\ stderr[1].url = fullURL)

\* C6: the two digests calculateHashes returns (the ones main then prints and
\* offers to the store) are digests of the same bytes, whatever the server
\* answers to the two GETs; stated here for two answers with status 200.
C6_SameByteStream ==
    (hashes.err = NilErr /\ fav1.status = StatusOK /\ fav2.status = StatusOK) =>
        /\ hashes.md5.of = hashes.sha256.of
        /\ \A i \in 1..Len(db) :
              (db[i].md5 = hashes.md5 /\ db[i].sha256 = hashes.sha256) =>
                  db[i].md5.of = db[i].sha256.of

\* C7: for a non-empty link, resolveLink returns the link itself when it starts
\* with http:// or https://, else baseURL followed by the link when it starts
\* with /, else baseURL, a slash and the link; /favicon.ico and favicon.ico
\* against http://a.com both give http://a.com/favicon.ico.
C7_ResolveRules ==
    (pin.fn = "resolveLink" /\ pout.done /\ pin.link # <<>>) =>
        /\ ~pout.res.panic
        /\ pout.res.url =
              IF StartsWith(pin.link, HTTP) \/ StartsWith(pin.link, HTTPS) THEN pin.link
              ELSE IF Head(pin.link) = "/" THEN pin.baseURL \o pin.link
              ELSE pin.baseURL \o <<"/">> \o pin.link
        /\ (pin.baseURL = ACom /\ pin.link \in {SlashFavicon, Favicon}) =>
              pout.res.url = ACom \o SlashFavicon

\* C7's case: the bare reference resolved against http://a.com
C7_Witness ==
    /\ pin.fn = "resolveLink" /\ pout.done
    /\ pin.baseURL = ACom /\ pin.link = Favicon
    /\ pout.res.url = ACom \o SlashFavicon

\* C8: no run and no direct call of resolveLink indexes the first character of
\* an empty reference.
C8_EmptyReferenceGuarded ==
    /\ pc # "panicked"
    /\ (pin.fn = "resolveLink" /\ pout.done) => ~pout.res.panic

\* C9 as written: every answer with a 2xx status whose body can be read gives
\* the body and no error, every other status gives a status error with the
\* code, and no body comes with an error.
C9_BodyForEvery2xx ==
    (pin.fn = "fetchHTML" /\ pout.done /\ ~pin.resp.err) =>
        /\ (Success(pin.resp.status) /\ ~pin.resp.readErr) =>
              pout.res = [body |-> pin.resp.body, err |-> NilErr]
        /\ ~Success(pin.resp.status) => pout.res.err = StatusErr(pin.resp.status)
        /\ pout.res.err # NilErr => pout.res.body = <<>>

\* C9 amended: an answer with status 200 whose body can be read gives the body
\* and no error, every other status (201 and 203 too) gives a status error
\* with the code, and no body comes with an error.
C9_BodyFor200Only ==
    (pin.fn = "fetchHTML" /\ pout.done /\ ~pin.resp.err) =>
        /\ (pin.resp.status = 200 /\ ~pin.resp.readErr) =>
              pout.res = [body |-> pin.resp.body, err |-> NilErr]
        /\ pin.resp.status # 200 => pout.res.err = StatusErr(pin.resp.status)
        /\ pout.res.err # NilErr => pout.res.body = <<>>

\* C9's case: a 203 with a body was turned into a status error without a body
C9_Witness ==
    /\ pin.fn = "fetchHTML" /\ pout.done
    /\ pin.resp.status = 203 /\ pin.resp.body # <<>>
    /\ pout.res = [body |-> <<>>, err |-> StatusErr(203)]

\* where x occurs first in seq
FirstAt(seq, x) == SetMin({i \in 1..Len(seq) : seq[i] = x})

\* t, ignoring case, is one of the three forms of the pattern
FaviconPattern(t) ==
    LET f == [i \in 1..Len(t) |-> Fold(t[i])]
    IN  \/ f = Favicon
        \/ f = SlashFavicon
        \/ /\ StartsWith(f, HTTP) \/ StartsWith(f, HTTPS)
           /\ Len(f) >= Len(HTTP) + Len(SlashFavicon)
           /\ SubSeq(f, Len(f) - Len(SlashFavicon) + 1, Len(f)) = SlashFavicon
           /\ \A i \in 1..Len(t) : t[i] \notin {"\"", " "}

\* text contains favicon.ico, ignoring case
MentionsFavicon(text) ==
    \E i \in 1..Len(text) :
        /\ i + Len(Favicon) - 1 <= Len(text)
        /\ [k \in 1..Len(Favicon) |-> Fold(text[i + k - 1])] = Favicon

\* C10: of a text whose scan finds N distinct matches and M repetitions,
\* extractFaviconLinks returns exactly the N, none twice, in the order of their
\* first occurrence, each of them a favicon pattern; a text without a match
\* gives the empty sequence.
C10_DistinctInFirstOrder ==
    (pin.fn = "extractFaviconLinks" /\ pout.done) =>
        LET m == pout.matches
            r == pout.links
        IN  /\ Len(r) = Cardinality({m[i] : i \in 1..Len(m)})
            /\ {r[i] : i \in 1..Len(r)} = {m[i] : i \in 1..Len(m)}
            /\ \A i, j \in 1..Len(r) : i < j => FirstAt(m, r[i]) < FirstAt(m, r[j])
            /\ \A i \in 1..Len(r) : FaviconPattern(r[i])
            /\ r = <<>> <=> ~MentionsFavicon(pin.content)

\* C10's case: two distinct matches, the first of them repeated after the second
C10_Witness ==
    /\ pin.fn = "extractFaviconLinks" /\ pout.done
    /\ Len(pout.matches) = 3
    /\ Len(pout.links) = 2
    /\ pout.matches[3] = pout.matches[1]

=============================================================================
